---- MODULE Spec2Model ----
(***************************************************************************)
(* Model of saleohota-bot (src/main.py): the price-watch cycle             *)
(* (check_prices), the scheduler that starts it, the subscription table    *)
(* and the two-message conversation that creates subscriptions.            *)
(*                                                                         *)
(* A text is a sequence of one-character strings.  Optional[int] values    *)
(* are sequences of length at most one: None is << >>, the integer n is    *)
(* << n >>.  Every step of the model is the code between two awaits of one *)
(* asyncio task: tasks interleave only where the code awaits.              *)
(***************************************************************************)
EXTENDS Integers, Sequences, FiniteSets, TLC

\* ------------------------------------------------------------------------
\* Bounds of the model
\* ------------------------------------------------------------------------
\* Spec: overlapping cycles over a small table
MaxCycles == 2      \* check_prices tasks alive at the same time
MaxSubs == 1        \* rows ever inserted into the subscriptions table
\* RowsSpec: one cycle at a time over a larger table
RowsCycles == 1
RowsSubs == 2
MaxHandlers == 1    \* on_message tasks suspended in an await at the same time
\* ChatSpec: the conversation alone, on_message tasks alive and rows inserted
ChatHandlers == 2
ChatSubs == 1
MaxSent == 2        \* notifications counted per subscription

Max(a, b) == IF a >= b THEN a ELSE b

None == << >>
Some(x) == << x >>

\* ------------------------------------------------------------------------
\* Characters and the str methods the code uses
\* ------------------------------------------------------------------------
Digits == {"0", "1", "2", "3", "4", "5", "6", "7", "8", "9"}

Letters == {"a", "b", "c", "d", "e", "f", "g", "h", "i", "j", "k", "l", "m",
            "n", "o", "p", "q", "r", "s", "t", "u", "v", "w", "x", "y", "z",
            "A", "B", "C", "D", "E", "F", "G", "H", "I", "J", "K", "L", "M",
            "N", "O", "P", "Q", "R", "S", "T", "U", "V", "W", "X", "Y", "Z"}

DigitVal(c) ==
    CASE c = "0" -> 0 [] c = "1" -> 1 [] c = "2" -> 2 [] c = "3" -> 3
      [] c = "4" -> 4 [] c = "5" -> 5 [] c = "6" -> 6 [] c = "7" -> 7
      [] c = "8" -> 8 [] c = "9" -> 9

DigitChar(d) ==
    CASE d = 0 -> "0" [] d = 1 -> "1" [] d = 2 -> "2" [] d = 3 -> "3"
      [] d = 4 -> "4" [] d = 5 -> "5" [] d = 6 -> "6" [] d = 7 -> "7"
      [] d = 8 -> "8" [] d = 9 -> "9"

\* \w of the re module, on the characters of the model
IsWord(c) == c \in Digits \cup Letters \cup {"_"}

\* \s of the re module and the default argument of str.strip
IsSpace(c) == c = " "

RECURSIVE lstrip(_)
lstrip(t) == IF t # << >> /\ IsSpace(Head(t)) THEN lstrip(Tail(t)) ELSE t

RECURSIVE rstrip(_)
rstrip(t) ==
    IF t # << >> /\ IsSpace(t[Len(t)]) THEN rstrip(SubSeq(t, 1, Len(t) - 1)) ELSE t

\* str.strip()
strip(t) == rstrip(lstrip(t))

\* str.replace(c, "")
RECURSIVE remove(_, _)
remove(t, c) ==
    IF t = << >> THEN << >>
    ELSE IF Head(t) = c THEN remove(Tail(t), c)
    ELSE << Head(t) >> \o remove(Tail(t), c)

\* str.isdigit()
isdigit(t) == t # << >> /\ \A i \in 1..Len(t) : t[i] \in Digits

\* int(t) of a digit string
RECURSIVE int(_)
int(t) == IF t = << >> THEN 0 ELSE 10 * int(SubSeq(t, 1, Len(t) - 1)) + DigitVal(t[Len(t)])

\* str(n) of a natural number
RECURSIVE str(_)
str(n) == IF n < 10 THEN << DigitChar(n) >> ELSE str(n \div 10) \o << DigitChar(n % 10) >>

LowerChar(c) ==
    CASE c = "O" -> "o" [] c = "Z" -> "z" [] c = "N" -> "n" [] c = "W" -> "w"
      [] c = "B" -> "b" [] OTHER -> c

\* str.lower()
lower(t) == [i \in 1..Len(t) |-> LowerChar(t[i])]

\* lit occurs in t at position i
Occurs(t, lit, i) == i >= 1 /\ i + Len(lit) - 1 <= Len(t) /\ SubSeq(t, i, i + Len(lit) - 1) = lit

Contains(t, lit) == \E i \in 1..Len(t) : Occurs(t, lit, i)

\* length of the maximal run of digits of t that starts at position i
RECURSIVE DigitRun(_, _)
DigitRun(t, i) == IF i <= Len(t) /\ t[i] \in Digits THEN 1 + DigitRun(t, i + 1) ELSE 0

\* \b before position i / after position i - 1, next to a word character
BoundaryBefore(t, i) == i = 1 \/ ~IsWord(t[i - 1])
BoundaryAfter(t, j) == j = Len(t) \/ ~IsWord(t[j + 1])

Min(S) == CHOOSE x \in S : \A y \in S : x <= y

\* ------------------------------------------------------------------------
\* Reference parsing
\* ------------------------------------------------------------------------
WBCatalog == << "w", "i", "l", "d", "b", "e", "r", "r", "i", "e", "s", ".", "r", "u",
                "/", "c", "a", "t", "a", "l", "o", "g", "/" >>

\* re.search(r"wildberries\.ru/catalog/(\d+)", text), then
\* re.search(r"\b(\d{6,12})\b", text)
extract_wb_nm(text) ==
    IF text = << >> THEN None
    ELSE LET links == {i \in 1..Len(text) :
                          Occurs(text, WBCatalog, i) /\ DigitRun(text, i + Len(WBCatalog)) >= 1}
             runs == {i \in 1..Len(text) :
                          /\ text[i] \in Digits
                          /\ BoundaryBefore(text, i)
                          /\ DigitRun(text, i) \in 6..12
                          /\ BoundaryAfter(text, i + DigitRun(text, i) - 1)}
         IN IF links # {}
            THEN LET s == Min(links) + Len(WBCatalog)
                 IN Some(int(SubSeq(text, s, s + DigitRun(text, s) - 1)))
            ELSE IF runs # {}
            THEN LET s == Min(runs)
                 IN Some(int(SubSeq(text, s, s + DigitRun(text, s) - 1)))
            ELSE None

Ozon == << "o", "z", "o", "n" >>

\* length of the run of whitespace of t that starts at position i
RECURSIVE SpaceRun(_, _)
SpaceRun(t, i) == IF i <= Len(t) /\ IsSpace(t[i]) THEN 1 + SpaceRun(t, i + 1) ELSE 0

\* re.search(r"\bozon\s+(\d{6,12})\b", t), then
\* re.search(r"-([0-9]{6,12})/?(?:\?|$)", t) and "ozon" in t
extract_ozon_id(text) ==
    IF text = << >> THEN None
    ELSE LET t == lower(strip(text))
             cmds == {i \in 1..Len(t) :
                          /\ Occurs(t, Ozon, i)
                          /\ BoundaryBefore(t, i)
                          /\ SpaceRun(t, i + 4) >= 1
                          /\ LET s == i + 4 + SpaceRun(t, i + 4)
                             IN /\ DigitRun(t, s) \in 6..12
                                /\ BoundaryAfter(t, s + DigitRun(t, s) - 1)}
             tails == {i \in 1..Len(t) :
                          /\ t[i] = "-"
                          /\ DigitRun(t, i + 1) \in 6..12
                          /\ LET e == i + DigitRun(t, i + 1)
                             IN \/ e = Len(t)
                                \/ e + 1 = Len(t) /\ t[e + 1] \in {"/", "?"}
                                \/ e + 1 < Len(t) /\ t[e + 1] = "?"
                                \/ e + 2 <= Len(t) /\ t[e + 1] = "/" /\ t[e + 2] = "?"}
         IN IF cmds # {}
            THEN LET s == Min(cmds) + 4 + SpaceRun(t, Min(cmds) + 4)
                 IN Some(SubSeq(t, s, s + DigitRun(t, s) - 1))
            ELSE IF tails # {} /\ Contains(t, Ozon)
            THEN LET s == Min(tails) + 1
                 IN Some(SubSeq(t, s, s + DigitRun(t, s) - 1))
            ELSE None

\* is_price_message: Some(price) or None
is_price_message(text) ==
    IF text = << >> THEN None
    ELSE LET t == remove(remove(strip(text), " "), ".")
         IN IF ~isdigit(t) THEN None
            ELSE IF int(t) <= 0 THEN None
            ELSE Some(int(t))

\* ------------------------------------------------------------------------
\* WB card fetch
\* ------------------------------------------------------------------------
NumHosts == 20

\* BASKETS: the mirror hosts basket-01 .. basket-20, in list order
BASKETS == [i \in 1..NumHosts |-> i]

\* wb_card_urls: one url per host, all with the same path
wb_card_urls(nm) ==
    [i \in 1..NumHosts |->
        [host |-> BASKETS[i], vol |-> nm \div 1000000, part |-> nm \div 1000, nm |-> nm]]

\* The cards the marketplace may serve.  Prices are in kopecks.
Cards ==
    { [imt_name |-> Some("Item"), goods_name |-> None, salePriceU |-> Some(200), priceU |-> Some(500)],
      [imt_name |-> None, goods_name |-> Some("Item"), salePriceU |-> Some(299), priceU |-> None],
      [imt_name |-> Some("Item"), goods_name |-> None, salePriceU |-> None, priceU |-> Some(300)],
      [imt_name |-> Some("Item"), goods_name |-> None, salePriceU |-> None, priceU |-> None] }

NoCard == [imt_name |-> None, goods_name |-> None, salePriceU |-> None, priceU |-> None]

\* What one host answers to session.get(url): status 200 with a JSON body,
\* status 200 with a body r.json() cannot decode, another status, or an
\* exception (connection error, timeout).
HostAnswers ==
    [kind : {"json"}, status : {200}, card : Cards]
      \cup [kind : {"undecodable"}, status : {200}, card : {NoCard}]
      \cup [kind : {"status"}, status : {404}, card : {NoCard}]
      \cup [kind : {"exception"}, status : {0}, card : {NoCard}]

Failing == {a \in HostAnswers : a.kind # "json"}

\* The answers of the hosts during one fetch: the first k hosts fail, the
\* others answer with a card, for the k below (k = NumHosts: every host fails).
FailingPrefixes == {0, 5, NumHosts}

Networks ==
    {[h \in 1..NumHosts |-> IF h <= k THEN bad ELSE good] :
        k \in FailingPrefixes, bad \in Failing,
        good \in [kind : {"json"}, status : {200}, card : Cards]}

NoError == [kind |-> "none", status |-> 0, host |-> 0]

\* the loop of fetch_wb_card from the i-th url on
RECURSIVE fetch_wb_card_from(_, _, _, _)
fetch_wb_card_from(urls, net, i, last_err) ==
    IF i > Len(urls)
    THEN [ok |-> FALSE, card |-> NoCard, host |-> 0, last_err |-> last_err]
    ELSE LET r == net[urls[i].host]
         IN IF r.kind = "json"
            THEN [ok |-> TRUE, card |-> r.card, host |-> urls[i].host, last_err |-> last_err]
            ELSE fetch_wb_card_from(urls, net, i + 1,
                     [kind |-> r.kind, status |-> r.status, host |-> urls[i].host])

\* fetch_wb_card: ok = FALSE is the RuntimeError raised after the last host
fetch_wb_card(nm, net) == fetch_wb_card_from(wb_card_urls(nm), net, 1, NoError)

\* x or y, for optional strings
OrElse(x, y) == IF x # None THEN x ELSE y

\* wb_extract_title_price: title, and price in whole roubles or None
wb_extract_title_price(card_json) ==
    [title |-> OrElse(card_json.imt_name, OrElse(card_json.goods_name, Some("WB item"))),
     price |-> IF card_json.salePriceU # None THEN Some(card_json.salePriceU[1] \div 100)
               ELSE IF card_json.priceU # None THEN Some(card_json.priceU[1] \div 100)
               ELSE None]

WBUrl(nm) == [form |-> "wb_detail", arg |-> str(nm)]

\* the articles of the model, and what fetch_wb_card may return for each
Articles == {123456, 654321}

\* ok and card of every outcome of fetch_wb_card(nm, session)
CardFetches ==
    [nm \in Articles |->
        {[ok |-> fetch_wb_card(nm, net).ok, card |-> fetch_wb_card(nm, net).card] :
            net \in Networks}]

\* fetch_current_price, where r is what its call of fetch_wb_card(int(product_id))
\* returns; raised = TRUE when fetch_wb_card raises
fetch_current_price(marketplace, product_id, r) ==
    IF marketplace = "wb"
    THEN LET nm == int(product_id)
             tp == wb_extract_title_price(r.card)
         IN IF r.ok
            THEN [raised |-> FALSE, price |-> tp.price, title |-> tp.title, url |-> Some(WBUrl(nm))]
            ELSE [raised |-> TRUE, price |-> None, title |-> None, url |-> None]
    ELSE [raised |-> FALSE, price |-> None, title |-> None, url |-> None]

\* ------------------------------------------------------------------------
\* State
\* ------------------------------------------------------------------------
VARIABLES
    subs,       \* the subscriptions table: id -> row, for the ids that exist
    nextId,     \* the id AUTOINCREMENT gives to the next inserted row
    PENDING,    \* user_id -> PendingEntry, for the users awaiting a price
    cycles,     \* the check_prices tasks the scheduler has created
    handlers,   \* the on_message tasks suspended in an await
    sent        \* <<sub id, chat id>> -> 'price reached' messages delivered

vars == << subs, nextId, PENDING, cycles, handlers, sent >>

\* who writes, message.from_user.id and message.chat.id: one user, in a
\* private chat and in a group chat
Senders == { [user |-> 1, chat |-> 1], [user |-> 1, chat |-> 2] }

\* RowsSpec: the private chat only
RowsSenders == { [user |-> 1, chat |-> 1] }

Users == {s.user : s \in Senders}
Chats == {s.chat : s \in Senders}

\* A check_prices task: where it is suspended, the rows it loaded, the row it
\* is at, the price it fetched for that row, and what it has logged so far:
\* << row, what raised >> for every "Check failed sub_id=...: {e}".  A slot is
\* idle before its first task and after each task, whose log it keeps until
\* the next task starts.
IdleCycle == [pc |-> "idle", rows |-> << >>, idx |-> 0, price |-> None, warned |-> {}]

\* An on_message task suspended in an await: in fetch_wb_card (pc "fetch",
\* the article nm; get is the state of the loop over the hosts when the model
\* follows it one request at a time) or in db_add_subscription (pc "insert",
\* the popped PendingEntry and the price).  alone: no other task of the same
\* user was suspended in a fetch when this one started, so every reference
\* of the user handled while it is suspended was sent after its own.
IdleHandler ==
    [pc |-> "idle", user |-> 0, chat |-> 0, nm |-> 0, pending |-> None, price |-> 0,
     get |-> None, alone |-> TRUE]

Init ==
    /\ subs = << >>
    /\ nextId = 1
    /\ PENDING = << >>
    /\ cycles = [c \in 1..Max(MaxCycles, RowsCycles) |-> IdleCycle]
    /\ handlers = [h \in 1..Max(MaxHandlers, ChatHandlers) |-> IdleHandler]
    /\ sent = [k \in (1..Max(Max(MaxSubs, RowsSubs), ChatSubs)) \X Chats |-> 0]

\* ------------------------------------------------------------------------
\* Subscription store
\* ------------------------------------------------------------------------
\* the ids of S in ascending order
RECURSIVE SortedIds(_)
SortedIds(S) == IF S = {} THEN << >> ELSE << Min(S) >> \o SortedIds(S \ {Min(S)})

\* What the loop body of check_prices reads from a row r: sub_id, chat_id,
\* marketplace, product_id, target_price, url, title.  (old_last is assigned
\* and never read.)
RowLocals(r) ==
    [id |-> r.id, chat_id |-> r.chat_id, marketplace |-> r.marketplace,
     product_id |-> r.product_id, target_price |-> r.target_price,
     url |-> r.url, title |-> r.title]

\* db_get_active without its WHERE clause
db_get_all(table) ==
    LET ids == SortedIds(DOMAIN table)
    IN [k \in 1..Len(ids) |-> RowLocals(table[ids[k]])]

\* db_get_active: SELECT * FROM subscriptions WHERE active = 1
db_get_active(table) ==
    LET ids == SortedIds({i \in DOMAIN table : table[i].active})
    IN [k \in 1..Len(ids) |-> RowLocals(table[ids[k]])]

\* db_update_last_price: UPDATE subscriptions SET last_price = ? WHERE id = ?
db_update_last_price(table, sub_id, last_price) ==
    [i \in DOMAIN table |->
        IF i = sub_id THEN [table[i] EXCEPT !.last_price = last_price] ELSE table[i]]

\* db_deactivate: UPDATE subscriptions SET active = 0 WHERE id = ?
db_deactivate(table, sub_id) ==
    [i \in DOMAIN table |->
        IF i = sub_id THEN [table[i] EXCEPT !.active = FALSE] ELSE table[i]]

\* cur.rowcount of the DELETE: the rows it deletes
rowcount(table, chat_id, sub_id) ==
    Cardinality({j \in DOMAIN table : j = sub_id /\ table[j].chat_id = chat_id})

\* the DELETE without its chat_id condition
db_remove_by_id(table, chat_id, sub_id) ==
    [i \in DOMAIN table \ {sub_id} |-> table[i]]

\* db_remove_subscription: DELETE FROM subscriptions WHERE chat_id = ? AND id = ?
db_remove_subscription(table, chat_id, sub_id) ==
    [i \in {j \in DOMAIN table : ~(j = sub_id /\ table[j].chat_id = chat_id)} |-> table[i]]

\* db_add_subscription: INSERT ... VALUES (..., 1, created_at) under a new id
db_add_subscription(table, id, user_id, chat_id, marketplace, product_id, title, url, target_price, last_price) ==
    [i \in DOMAIN table \cup {id} |->
        IF i = id
        THEN [id |-> id, user_id |-> user_id, chat_id |-> chat_id,
              marketplace |-> marketplace, product_id |-> product_id, title |-> title,
              url |-> url, target_price |-> target_price, last_price |-> last_price,
              active |-> TRUE]
        ELSE table[i]]

\* ------------------------------------------------------------------------
\* Scheduler and check_prices
\* ------------------------------------------------------------------------
\* the row the task c is at
Row(c) == cycles[c].rows[cycles[c].idx]

\* the for loop without the continue of the OZON branch: every row is fetched
LoopEveryRow(rows, i, warned) ==
    IF i > Len(rows) THEN [pc |-> "idle", rows |-> << >>, idx |-> 0, price |-> None, warned |-> warned]
    ELSE [pc |-> "fetch", rows |-> rows, idx |-> i, price |-> None, warned |-> warned]

\* The for loop from row i on.  An OZON row takes no await: fetch_current_price
\* returns (None, None, None) at once and the body continues with the next row.
\* The task suspends in the fetch of the first WB row, or check_prices returns.
RECURSIVE LoopFrom(_, _, _)
LoopFrom(rows, i, warned) ==
    IF i > Len(rows) THEN [IdleCycle EXCEPT !.warned = warned]
    ELSE IF rows[i].marketplace = "ozon" THEN LoopFrom(rows, i + 1, warned)
    ELSE [pc |-> "fetch", rows |-> rows, idx |-> i, price |-> None, warned |-> warned]

\* continue, or the end of the loop body
NextRow(cy) == LoopFrom(cy.rows, cy.idx + 1, cy.warned)

\* an except branch outside the loop: the first exception ends the cycle
ExceptAborts(cy, e) == [IdleCycle EXCEPT !.warned = cy.warned \cup {<< cy.rows[cy.idx].id, e >>}]

\* the except branch of the loop body: logger.warning with the exception e,
\* then on to the next row
Except(cy, e) == LoopFrom(cy.rows, cy.idx + 1, cy.warned \cup {<< cy.rows[cy.idx].id, e >>})

\* the interval job: asyncio.create_task(check_prices(bot))
Tick(c) ==
    /\ cycles[c].pc = "idle"
    /\ cycles' = [cycles EXCEPT ![c] = [IdleCycle EXCEPT !.pc = "load"]]
    /\ UNCHANGED << subs, nextId, PENDING, handlers, sent >>

\* rows = await db_get_active(); if not rows: return
Load(c) ==
    /\ cycles[c].pc = "load"
    /\ cycles' = [cycles EXCEPT ![c] = LoopFrom(db_get_active(subs), 1, {})]
    /\ UNCHANGED << subs, nextId, PENDING, handlers, sent >>

\* db_get_active raises: the exception leaves check_prices and ends the task
LoadFail(c) ==
    /\ cycles[c].pc = "load"
    /\ cycles' = [cycles EXCEPT ![c] = IdleCycle]
    /\ UNCHANGED << subs, nextId, PENDING, handlers, sent >>

\* WB row: price, new_title, new_url = await fetch_current_price(...)
FetchOk(c) ==
    /\ cycles[c].pc = "fetch"
    /\ \E r \in CardFetches[int(Row(c).product_id)] :
          LET f == fetch_current_price(Row(c).marketplace, Row(c).product_id, r)
          IN /\ ~f.raised
             /\ cycles' = [cycles EXCEPT ![c] = [@ EXCEPT !.pc = "update", !.price = f.price]]
    /\ UNCHANGED << subs, nextId, PENDING, handlers, sent >>

\* a failed fetch treated as a fetch without a price: last_price is cleared
FetchFailClears(c) ==
    /\ cycles[c].pc = "fetch"
    /\ \E r \in CardFetches[int(Row(c).product_id)] :
          /\ fetch_current_price(Row(c).marketplace, Row(c).product_id, r).raised
          /\ cycles' = [cycles EXCEPT ![c] = Except(@, "fetch")]
    /\ subs' = db_update_last_price(subs, Row(c).id, None)
    /\ UNCHANGED << nextId, PENDING, handlers, sent >>

\* WB row: fetch_current_price raises (every host failed)
FetchFail(c) ==
    /\ cycles[c].pc = "fetch"
    /\ \E r \in CardFetches[int(Row(c).product_id)] :
          /\ fetch_current_price(Row(c).marketplace, Row(c).product_id, r).raised
          /\ cycles' = [cycles EXCEPT ![c] = Except(@, "fetch")]
    /\ UNCHANGED << subs, nextId, PENDING, handlers, sent >>

\* what follows await db_update_last_price(sub_id, price)
AfterUpdate(cy) ==
    IF cy.price = None THEN NextRow(cy)
    ELSE IF cy.price[1] <= cy.rows[cy.idx].target_price THEN [cy EXCEPT !.pc = "send"]
    ELSE NextRow(cy)

\* await db_update_last_price(sub_id, price), then the threshold test
UpdateOk(c) ==
    /\ cycles[c].pc = "update"
    /\ subs' = db_update_last_price(subs, Row(c).id, cycles[c].price)
    /\ cycles' = [cycles EXCEPT ![c] = AfterUpdate(@)]
    /\ UNCHANGED << nextId, PENDING, handlers, sent >>

\* db_update_last_price raises
UpdateFail(c) ==
    /\ cycles[c].pc = "update"
    /\ cycles' = [cycles EXCEPT ![c] = Except(@, "store")]
    /\ UNCHANGED << subs, nextId, PENDING, handlers, sent >>

\* what follows a delivered bot.send_message
AfterSend(cy) == [cy EXCEPT !.pc = "deactivate"]

\* a failed send treated as a delivered one
AfterSendFailDeactivates(cy) == [cy EXCEPT !.pc = "deactivate"]

\* what follows bot.send_message raising
AfterSendFail(cy) == Except(cy, "send")

\* await bot.send_message(chat_id, ...) delivers the message
SendOk(c) ==
    /\ cycles[c].pc = "send"
    /\ sent[<< Row(c).id, Row(c).chat_id >>] < MaxSent
    /\ sent' = [sent EXCEPT ![<< Row(c).id, Row(c).chat_id >>] = @ + 1]
    /\ cycles' = [cycles EXCEPT ![c] = AfterSend(@)]
    /\ UNCHANGED << subs, nextId, PENDING, handlers >>

\* bot.send_message raises (the chat is unreachable)
SendFail(c) ==
    /\ cycles[c].pc = "send"
    /\ cycles' = [cycles EXCEPT ![c] = AfterSendFail(@)]
    /\ UNCHANGED << subs, nextId, PENDING, handlers, sent >>

\* await db_deactivate(sub_id)
DeactivateOk(c) ==
    /\ cycles[c].pc = "deactivate"
    /\ subs' = db_deactivate(subs, Row(c).id)
    /\ cycles' = [cycles EXCEPT ![c] = NextRow(@)]
    /\ UNCHANGED << nextId, PENDING, handlers, sent >>

\* db_deactivate raises
DeactivateFail(c) ==
    /\ cycles[c].pc = "deactivate"
    /\ cycles' = [cycles EXCEPT ![c] = Except(@, "store")]
    /\ UNCHANGED << subs, nextId, PENDING, handlers, sent >>

\* ------------------------------------------------------------------------
\* Messages
\* ------------------------------------------------------------------------
TxtArticle == << "1", "2", "3", "4", "5", "6" >>

TxtLink == << "w", "i", "l", "d", "b", "e", "r", "r", "i", "e", "s", ".", "r", "u", "/", "c", "a", "t", "a", "l", "o", "g", "/", "1", "2", "3", "4", "5", "6" >>

TxtOzonArticle == << "o", "z", "o", "n", " ", "6", "5", "4", "3", "2", "1" >>

TxtOzonZeros == << "O", "Z", "O", "N", " ", "0", "0", "0", "0", "0", "0" >>

TxtWord == << "a", "b", "c" >>

TxtPrice == << "2" >>

TxtPriceSpaced == << " ", "2", " " >>

TxtPriceDotted == << " ", "0", ".", "2" >>

TxtZero == << "0" >>

TxtBlank == << " ", " " >>

TxtOzonLink == << "o", "z", "o", "n", ".", "r", "u", "/", "t", "-", "6", "5", "4", "3", "2", "1", "/" >>

\* the texts users send
Texts ==
    { TxtLink, TxtOzonZeros, TxtWord, TxtPrice, TxtPriceDotted, TxtZero, TxtBlank }

\* ChatSpec: the texts users send in the conversation
ChatTexts ==
    { TxtArticle, TxtOzonArticle, TxtOzonLink, TxtOzonZeros, TxtWord,
      TxtPriceSpaced, TxtBlank }

\* what on_message computes from a text
Parsed ==
    [t \in Texts \cup ChatTexts |->
        [text |-> strip(t),
         price |-> is_price_message(strip(t)),
         nm |-> extract_wb_nm(strip(t)),
         ozon_id |-> extract_ozon_id(strip(t))]]

\* the PendingEntry on_message stores for a WB card
WBPending(nm, card) ==
    [marketplace |-> "wb", product_id |-> str(nm),
     title |-> wb_extract_title_price(card).title, url |-> WBUrl(nm),
     last_price |-> wb_extract_title_price(card).price]

\* the PendingEntry on_message stores for an OZON id
OzonPending(text, ozon_id) ==
    [marketplace |-> "ozon", product_id |-> ozon_id,
     title |-> << "Ozon item " >> \o ozon_id,
     url |-> IF Contains(lower(text), Ozon) THEN [form |-> "text", arg |-> text]
             ELSE [form |-> "ozon_id", arg |-> ozon_id],
     last_price |-> None]

\* PENDING[user_id] = entry
PendingPut(pending, user_id, entry) ==
    [u \in DOMAIN pending \cup {user_id} |-> IF u = user_id THEN entry ELSE pending[u]]

\* PENDING[user_id] read without removing the key
PendingKeep(pending, user_id) == pending

\* PENDING.pop(user_id): the dict without the key
PendingPop(pending, user_id) == [u \in DOMAIN pending \ {user_id} |-> pending[u]]

\* `if nm:` is false for None and for 0
Truthy(nm) == nm # None /\ nm[1] # 0

\* on_message, text empty after strip: return
MsgEmpty(s, text) ==
    /\ Parsed[text].text = << >>
    /\ UNCHANGED vars

\* a reprompt that also forgets the PendingEntry
MsgRepromptDrops(s, text) ==
    /\ Parsed[text].text # << >>
    /\ s.user \in DOMAIN PENDING
    /\ Parsed[text].price = None
    /\ PENDING' = PendingPop(PENDING, s.user)
    /\ UNCHANGED << subs, nextId, cycles, handlers, sent >>

\* on_message, user in PENDING, the text is no price: reprompt
MsgReprompt(s, text) ==
    /\ Parsed[text].text # << >>
    /\ s.user \in DOMAIN PENDING
    /\ Parsed[text].price = None
    /\ UNCHANGED vars

\* on_message, user in PENDING, the text is a price: PENDING.pop, then the
\* handler awaits db_add_subscription
MsgPrice(s, text, h) ==
    /\ Parsed[text].text # << >>
    /\ s.user \in DOMAIN PENDING
    /\ Parsed[text].price # None
    /\ handlers[h].pc = "idle"
    /\ handlers' = [handlers EXCEPT ![h] =
          [pc |-> "insert", user |-> s.user, chat |-> s.chat, nm |-> 0,
           pending |-> Some(PENDING[s.user]), price |-> Parsed[text].price[1],
           get |-> None, alone |-> TRUE]]
    /\ PENDING' = PendingPop(PENDING, s.user)
    /\ UNCHANGED << subs, nextId, cycles, sent >>

\* db_add_subscription commits: the row exists, the handler answers
InsertOk(h, maxSubs) ==
    /\ handlers[h].pc = "insert"
    /\ nextId <= maxSubs
    /\ LET p == handlers[h].pending[1]
       IN subs' = db_add_subscription(subs, nextId, handlers[h].user, handlers[h].chat,
                      p.marketplace, p.product_id, p.title, p.url,
                      handlers[h].price, p.last_price)
    /\ nextId' = nextId + 1
    /\ handlers' = [handlers EXCEPT ![h] = IdleHandler]
    /\ UNCHANGED << PENDING, cycles, sent >>

\* db_add_subscription raises: the exception leaves on_message
InsertFail(h) ==
    /\ handlers[h].pc = "insert"
    /\ handlers' = [handlers EXCEPT ![h] = IdleHandler]
    /\ UNCHANGED << subs, nextId, PENDING, cycles, sent >>

\* on_message, user not in PENDING, extract_wb_nm finds an article: the
\* handler awaits fetch_wb_card
MsgWbRef(s, text, h) ==
    /\ Parsed[text].text # << >>
    /\ s.user \notin DOMAIN PENDING
    /\ Truthy(Parsed[text].nm)
    /\ handlers[h].pc = "idle"
    /\ handlers' = [handlers EXCEPT ![h] =
          [pc |-> "fetch", user |-> s.user, chat |-> s.chat,
           nm |-> Parsed[text].nm[1], pending |-> None, price |-> 0, get |-> None,
           alone |-> \A k \in DOMAIN handlers :
                        ~(handlers[k].pc = "fetch" /\ handlers[k].user = s.user)]]
    /\ UNCHANGED << subs, nextId, PENDING, cycles, sent >>

\* fetch_wb_card returns a card: PENDING[user_id] = {...}, the handler answers
RefFetchOk(h) ==
    /\ handlers[h].pc = "fetch"
    /\ \E r \in CardFetches[handlers[h].nm] :
             /\ r.ok
             /\ PENDING' = PendingPut(PENDING, handlers[h].user,
                                      WBPending(handlers[h].nm, r.card))
    /\ handlers' = [handlers EXCEPT ![h] = IdleHandler]
    /\ UNCHANGED << subs, nextId, cycles, sent >>

\* a failed fetch that still leaves a PendingEntry, for a card without fields
RefFetchFailStores(h) ==
    /\ handlers[h].pc = "fetch"
    /\ \E r \in CardFetches[handlers[h].nm] : ~r.ok
    /\ PENDING' = PendingPut(PENDING, handlers[h].user, WBPending(handlers[h].nm, NoCard))
    /\ handlers' = [handlers EXCEPT ![h] = IdleHandler]
    /\ UNCHANGED << subs, nextId, cycles, sent >>

\* fetch_wb_card raises: the handler answers with the reason
RefFetchFail(h) ==
    /\ handlers[h].pc = "fetch"
    /\ \E r \in CardFetches[handlers[h].nm] : ~r.ok
    /\ handlers' = [handlers EXCEPT ![h] = IdleHandler]
    /\ UNCHANGED << subs, nextId, PENDING, cycles, sent >>

\* ------------------------------------------------------------------------
\* fetch_wb_card followed one request at a time (FetchSpec).  get holds the
\* answers the hosts will give during this fetch (net), the index of the next
\* url, last_err, the hosts session.get was called on so far (tried), and
\* the outcome once the function has returned or raised (out).
\* ------------------------------------------------------------------------
\* the first FirstGood - 1 hosts fail, alternating between two kinds of
\* failure; host FirstGood serves a card; the hosts after it serve another
\* card or fail
FirstGood == {1, 2, 6, NumHosts, NumHosts + 1}

FetchNetworks ==
    {[h \in 1..NumHosts |->
        IF h < k THEN (IF h % 2 = 1 THEN bad1 ELSE bad2)
        ELSE IF h = k THEN good ELSE later] :
        k \in FirstGood, bad1 \in Failing, bad2 \in Failing,
        good \in {a \in HostAnswers : a.kind = "json" /\ a.card.priceU = Some(500)},
        later \in {a \in HostAnswers : a.kind # "json" \/ a.card.priceU = Some(300)}}

\* fetch_wb_card is entered: last_err = None, the loop starts at the first url
GetStart(h) ==
    /\ handlers[h].pc = "fetch"
    /\ handlers[h].get = None
    /\ \E net \in FetchNetworks :
          handlers' = [handlers EXCEPT ![h].get =
              Some([net |-> net, i |-> 1, last_err |-> NoError, tried |-> << >>, out |-> None])]
    /\ UNCHANGED << subs, nextId, PENDING, cycles, sent >>

\* the url the loop is at, and what its host answers
GetUrl(h) == wb_card_urls(handlers[h].nm)[handlers[h].get[1].i]
GetAnswer(h) == handlers[h].get[1].net[GetUrl(h).host]

\* the loop is at a url it has not requested yet
Getting(h) ==
    /\ handlers[h].pc = "fetch"
    /\ handlers[h].get # None
    /\ handlers[h].get[1].out = None
    /\ handlers[h].get[1].i <= Len(wb_card_urls(handlers[h].nm))

\* session.get answers 200 and r.json() decodes: fetch_wb_card returns the
\* card, on_message stores the PendingEntry and awaits message.answer
GetJson(h) ==
    /\ Getting(h)
    /\ GetAnswer(h).kind = "json"
    /\ LET g == handlers[h].get[1]
       IN handlers' = [handlers EXCEPT ![h].pc = "answer", ![h].get =
              Some([g EXCEPT !.tried = Append(@, GetUrl(h).host),
                             !.out = Some([ok |-> TRUE, card |-> GetAnswer(h).card,
                                           host |-> GetUrl(h).host, last_err |-> g.last_err])])]
    /\ PENDING' = PendingPut(PENDING, handlers[h].user,
                             WBPending(handlers[h].nm, GetAnswer(h).card))
    /\ UNCHANGED << subs, nextId, cycles, sent >>

\* a failed request that ends the loop instead of moving to the next host
GetFailedGivesUp(h) ==
    /\ Getting(h)
    /\ GetAnswer(h).kind # "json"
    /\ LET g == handlers[h].get[1]
       IN handlers' = [handlers EXCEPT ![h].get =
              Some([g EXCEPT !.tried = Append(@, GetUrl(h).host),
                             !.i = Len(wb_card_urls(handlers[h].nm)) + 1,
                             !.last_err = [kind |-> GetAnswer(h).kind,
                                           status |-> GetAnswer(h).status,
                                           host |-> GetUrl(h).host]])]
    /\ UNCHANGED << subs, nextId, PENDING, cycles, sent >>

\* another status, an exception of session.get (connection error, timeout)
\* or of r.json(): last_err is set and the loop moves to the next url
GetFailed(h) ==
    /\ Getting(h)
    /\ GetAnswer(h).kind # "json"
    /\ LET g == handlers[h].get[1]
       IN handlers' = [handlers EXCEPT ![h].get =
              Some([g EXCEPT !.tried = Append(@, GetUrl(h).host),
                             !.i = @ + 1,
                             !.last_err = [kind |-> GetAnswer(h).kind,
                                           status |-> GetAnswer(h).status,
                                           host |-> GetUrl(h).host]])]
    /\ UNCHANGED << subs, nextId, PENDING, cycles, sent >>

\* the loop is over: raise RuntimeError(last_err); on_message catches it and
\* awaits message.answer with the reason
GetExhausted(h) ==
    /\ handlers[h].pc = "fetch"
    /\ handlers[h].get # None
    /\ handlers[h].get[1].i > Len(wb_card_urls(handlers[h].nm))
    /\ LET g == handlers[h].get[1]
       IN handlers' = [handlers EXCEPT ![h].pc = "answer", ![h].get =
              Some([g EXCEPT !.out = Some([ok |-> FALSE, card |-> NoCard, host |-> 0,
                                           last_err |-> g.last_err])])]
    /\ UNCHANGED << subs, nextId, PENDING, cycles, sent >>

\* message.answer returns: on_message is done
Answered(h) ==
    /\ handlers[h].pc = "answer"
    /\ handlers' = [handlers EXCEPT ![h] = IdleHandler]
    /\ UNCHANGED << subs, nextId, PENDING, cycles, sent >>

\* on_message, user not in PENDING, no WB article, extract_ozon_id finds an id
MsgOzonRef(s, text) ==
    /\ Parsed[text].text # << >>
    /\ s.user \notin DOMAIN PENDING
    /\ ~Truthy(Parsed[text].nm)
    /\ Parsed[text].ozon_id # None
    /\ PENDING' = PendingPut(PENDING, s.user,
                             OzonPending(Parsed[text].text, Parsed[text].ozon_id[1]))
    /\ UNCHANGED << subs, nextId, cycles, handlers, sent >>

\* on_message, user not in PENDING, nothing recognised: the fallback answer
MsgFallback(s, text) ==
    /\ Parsed[text].text # << >>
    /\ s.user \notin DOMAIN PENDING
    /\ ~Truthy(Parsed[text].nm)
    /\ Parsed[text].ozon_id = None
    /\ UNCHANGED vars

\* the arguments users give to /remove
RemoveArgs == { << >>, << "x" >>, << "1" >>, << "2" >> }

\* cmd_remove with a missing or non-numeric id: the format answer
CmdRemoveFormat(s, arg) ==
    /\ ~isdigit(arg)
    /\ UNCHANGED vars

\* cmd_remove: ok = await db_remove_subscription(chat.id, sub_id)
CmdRemove(s, arg) ==
    /\ isdigit(arg)
    /\ subs' = db_remove_subscription(subs, s.chat, int(arg))
    /\ UNCHANGED << nextId, PENDING, cycles, handlers, sent >>

\* what cmd_remove answers for ok = cur.rowcount > 0
cmd_remove_answer(table, chat_id, sub_id) ==
    IF rowcount(table, chat_id, sub_id) > 0 THEN "removed" ELSE "not found"

\* cmd_list: reads the rows of the chat and answers
CmdList(s) == UNCHANGED vars

\* ------------------------------------------------------------------------
\* Specification
\* ------------------------------------------------------------------------
\* every step of the program, with at most maxCycles check_prices tasks alive,
\* at most maxSubs rows ever inserted, and messages from the given senders
Step(maxCycles, maxSubs, senders) ==
    \/ \E c \in 1..maxCycles :
          \/ Tick(c) \/ Load(c) \/ LoadFail(c)
          \/ FetchOk(c) \/ FetchFail(c)
          \/ UpdateOk(c) \/ UpdateFail(c)
          \/ SendOk(c) \/ SendFail(c)
          \/ DeactivateOk(c) \/ DeactivateFail(c)
    \/ \E s \in senders, text \in Texts :
          \/ MsgEmpty(s, text) \/ MsgReprompt(s, text)
          \/ MsgOzonRef(s, text) \/ MsgFallback(s, text)
          \/ \E h \in 1..MaxHandlers : MsgPrice(s, text, h) \/ MsgWbRef(s, text, h)
    \/ \E h \in 1..MaxHandlers :
          InsertOk(h, maxSubs) \/ InsertFail(h) \/ RefFetchOk(h) \/ RefFetchFail(h)
    \/ \E s \in senders :
          \/ CmdList(s)
          \/ \E arg \in RemoveArgs : CmdRemoveFormat(s, arg) \/ CmdRemove(s, arg)

Next == Step(MaxCycles, MaxSubs, Senders)

Spec == Init /\ [][Next]_vars

RowsNext == Step(RowsCycles, RowsSubs, RowsSenders)

RowsSpec == Init /\ [][RowsNext]_vars

\* the conversation alone, in the private chat: no check_prices task,
\* ChatHandlers on_message tasks, the texts of ChatTexts
ChatNext ==
    \/ \E s \in RowsSenders, text \in ChatTexts :
          \/ MsgEmpty(s, text) \/ MsgReprompt(s, text)
          \/ MsgOzonRef(s, text) \/ MsgFallback(s, text)
          \/ \E h \in 1..ChatHandlers : MsgPrice(s, text, h) \/ MsgWbRef(s, text, h)
    \/ \E h \in 1..ChatHandlers :
          InsertOk(h, ChatSubs) \/ InsertFail(h) \/ RefFetchOk(h) \/ RefFetchFail(h)
    \/ \E s \in RowsSenders :
          \/ CmdList(s)
          \/ \E arg \in RemoveArgs : CmdRemoveFormat(s, arg) \/ CmdRemove(s, arg)

ChatSpec == Init /\ [][ChatNext]_vars

\* one user sending WB references, fetch_wb_card followed request by request
FetchNext ==
    \/ \E s \in RowsSenders, text \in ChatTexts :
          \E h \in 1..MaxHandlers : MsgWbRef(s, text, h)
    \/ \E h \in 1..MaxHandlers :
          GetStart(h) \/ GetJson(h) \/ GetFailed(h) \/ GetExhausted(h) \/ Answered(h)

FetchSpec == Init /\ [][FetchNext]_vars

\* ------------------------------------------------------------------------
\* The favourable environment of the liveness claim: every fetch, store write
\* and delivery succeeds, the price is at or below the target, nobody removes
\* a subscription, the timer keeps firing and every task gets to run.
\* ------------------------------------------------------------------------
FetchLow(c) ==
    /\ FetchOk(c)
    /\ cycles'[c].price # None
    /\ cycles'[c].price[1] <= Row(c).target_price

FairNext ==
    \/ \E c \in 1..MaxCycles :
          \/ Tick(c) \/ Load(c) \/ FetchLow(c)
          \/ UpdateOk(c) \/ SendOk(c) \/ DeactivateOk(c)
    \/ \E s \in Senders, text \in Texts :
          \E h \in 1..MaxHandlers : MsgPrice(s, text, h) \/ MsgWbRef(s, text, h)
    \/ \E h \in 1..MaxHandlers : InsertOk(h, MaxSubs) \/ RefFetchOk(h)

FairSpec ==
    /\ Init
    /\ [][FairNext]_vars
    /\ \A c \in 1..MaxCycles :
          /\ WF_vars(Tick(c))
          /\ WF_vars(Load(c) \/ FetchLow(c) \/ UpdateOk(c) \/ SendOk(c) \/ DeactivateOk(c))

\* ------------------------------------------------------------------------
\* Properties
\* ------------------------------------------------------------------------
Slots == 1..Max(MaxCycles, RowsCycles)

Ids == 1..Max(Max(MaxSubs, RowsSubs), ChatSubs)

RECURSIVE SentTo(_, _)
SentTo(id, chats) ==
    IF chats = {} THEN 0
    ELSE LET ch == CHOOSE x \in chats : TRUE
         IN sent[<< id, ch >>] + SentTo(id, chats \ {ch})

\* the 'price reached' messages delivered for subscription id
NotificationsFor(id) == SentTo(id, Chats)

\* the task c is inside the loop of check_prices
InProgress(c) == cycles[c].pc \in {"fetch", "update", "send", "deactivate"}

\* C1: for every subscription id, at most one 'price reached' notification is
\* ever delivered.
C1_AtMostOneNotification == \A id \in Ids : NotificationsFor(id) <= 1

\* C2: at most one check_prices cycle is in progress at any time (a tick that
\* fires during a cycle starts no second one).
C2_AtMostOneCycleInProgress ==
    \A c1, c2 \in Slots : InProgress(c1) /\ InProgress(c2) => c1 = c2

\* C9: an active WB subscription whose price stays at or below its target is,
\* in the favourable environment, eventually inactive with exactly one
\* notification delivered.
C9_EventuallyNotifiedOnce ==
    \A id \in Ids :
        (id \in DOMAIN subs /\ subs[id].active)
            ~> (id \in DOMAIN subs /\ ~subs[id].active /\ NotificationsFor(id) = 1)

\* the task c ended the loop body for the row it was at
LeftRow(c) ==
    /\ cycles'[c] # cycles[c]
    /\ cycles'[c].pc = "idle" \/ cycles'[c].idx > cycles[c].idx

\* C3: whenever a cycle is done with a row whose fetch gave a price
\* p, it has delivered the notification and the row is inactive if and only
\* if p <= target_price.
C3_NotifiedAndInactiveIffReached ==
    [][\A c \in Slots :
          (InProgress(c) /\ cycles[c].price # None /\ LeftRow(c))
            => ((/\ cycles[c].pc = "deactivate"
                 /\ Row(c).id \in DOMAIN subs' => ~subs'[Row(c).id].active)
                  <=> cycles[c].price[1] <= Row(c).target_price)]_vars

\* C4: when bot.send_message raises for a price at or below target, the task
\* still goes on to db_deactivate for that row.
C4_SendFailureStillDeactivates ==
    [][\A c \in Slots :
          (cycles[c].pc = "send" /\ cycles'[c] # cycles[c] /\ sent' = sent)
            => (cycles'[c].pc = "deactivate" /\ cycles'[c].idx = cycles[c].idx)]_vars

\* C5: an exception in the loop body of one row never ends the cycle: the task
\* logs it, changes neither the table nor the messages sent, and goes on with
\* the next WB row of the rows it loaded; it ends only after the last row.
C5_FailureNeverAbortsCycle ==
    [][\A c \in Slots :
          (InProgress(c) /\ cycles'[c] # cycles[c])
            => /\ \/ /\ InProgress(c)'
                     /\ cycles'[c].rows = cycles[c].rows
                     /\ cycles'[c].idx = cycles[c].idx
                     /\ cycles'[c].warned = cycles[c].warned
                  \/ /\ cycles'[c].pc = "fetch"
                     /\ cycles'[c].rows = cycles[c].rows
                     /\ cycles'[c].idx > cycles[c].idx
                     /\ \A i \in (cycles[c].idx + 1)..(cycles'[c].idx - 1) :
                           cycles[c].rows[i].marketplace = "ozon"
                  \/ /\ cycles'[c].pc = "idle"
                     /\ \A i \in (cycles[c].idx + 1)..Len(cycles[c].rows) :
                           cycles[c].rows[i].marketplace = "ozon"
               /\ cycles'[c].warned # cycles[c].warned
                    => /\ subs' = subs
                       /\ sent' = sent
                       /\ \E e \in {"fetch", "store", "send"} :
                             cycles'[c].warned = cycles[c].warned \cup {<< Row(c).id, e >>}]_vars

\* the first row of a cycle failed and the task is writing the price it
\* fetched for the second row
C5_Witness ==
    \E c \in Slots :
        /\ cycles[c].pc = "update"
        /\ cycles[c].idx = 2
        /\ cycles[c].price # None
        /\ \E e \in {"fetch", "store", "send"} :
              << cycles[c].rows[1].id, e >> \in cycles[c].warned

\* C6: when the fetch of a row raises, the step changes no row and sends no
\* message, and the task is done with that row for this cycle.
C6_FetchFailureLeavesRowAlone ==
    [][\A c \in Slots :
          (cycles[c].pc = "fetch" /\ cycles'[c] # cycles[c])
            => \/ /\ cycles'[c].pc = "update"
                  /\ cycles'[c].idx = cycles[c].idx
                  /\ cycles'[c].warned = cycles[c].warned
               \/ /\ LeftRow(c)
                  /\ cycles'[c].warned = cycles[c].warned \cup {<< Row(c).id, "fetch" >>}
                  /\ subs' = subs
                  /\ sent' = sent]_vars

\* a task has logged a failed fetch for a subscription that is still active,
\* with the last price it had and no notification
C6_Witness ==
    \E c \in Slots : \E id \in DOMAIN subs :
        /\ << id, "fetch" >> \in cycles[c].warned
        /\ \A e \in {"store", "send"} : << id, e >> \notin cycles[c].warned
        /\ subs[id].active
        /\ subs[id].last_price # None
        /\ NotificationsFor(id) = 0

\* C7: no step replaces a known last_price of a subscription by null.
C7_LastPriceNeverLost ==
    [][\A id \in DOMAIN subs \cap DOMAIN subs' :
          subs[id].last_price # None => subs'[id].last_price # None]_vars

\* C8: a subscription is active when inserted, under an id never used before;
\* no step sets active back to true; a task loads only rows active at that
\* moment, keeps the rows it loaded, and only a task that loaded a row
\* changes it or notifies for it.
C8_ActiveIsMonotone ==
    [][/\ \A id \in DOMAIN subs' \ DOMAIN subs : subs'[id].active /\ id = nextId
       /\ \A id \in DOMAIN subs \cap DOMAIN subs' : ~subs[id].active => ~subs'[id].active
       /\ \A c \in Slots :
            /\ (cycles[c].pc = "load" /\ cycles'[c] # cycles[c])
                 => \A i \in 1..Len(cycles'[c].rows) :
                       /\ cycles'[c].rows[i].id \in DOMAIN subs
                       /\ subs[cycles'[c].rows[i].id].active
            /\ (InProgress(c) /\ InProgress(c)') => cycles'[c].rows = cycles[c].rows
       /\ \A id \in DOMAIN subs \cap DOMAIN subs' :
            subs'[id] # subs[id] => \E c \in Slots : InProgress(c) /\ Row(c).id = id
       /\ \A id \in Ids :
            NotificationsFor(id)' # NotificationsFor(id)
              => \E c \in Slots : InProgress(c) /\ Row(c).id = id]_vars

\* the first subscription is inactive and a task that loaded the table after
\* that works on the second one only
C8_Witness ==
    \E c \in Slots :
        /\ 1 \in DOMAIN subs /\ ~subs[1].active
        /\ cycles[c].pc = "update"
        /\ Len(cycles[c].rows) = 1
        /\ cycles[c].rows[1].id = 2

\* the new row of the table is the one on_message inserts for handler h
InsertedFor(h) ==
    /\ nextId \notin DOMAIN subs
    /\ DOMAIN subs' = DOMAIN subs \cup {nextId}
    /\ \A i \in DOMAIN subs : subs'[i] = subs[i]
    /\ subs'[nextId].id = nextId
    /\ subs'[nextId].user_id = handlers[h].user
    /\ subs'[nextId].chat_id = handlers[h].chat
    /\ subs'[nextId].target_price = handlers[h].price
    /\ subs'[nextId].target_price > 0
    /\ subs'[nextId].active
    /\ subs'[nextId].marketplace = handlers[h].pending[1].marketplace
    /\ subs'[nextId].product_id = handlers[h].pending[1].product_id
    /\ subs'[nextId].title = handlers[h].pending[1].title
    /\ subs'[nextId].url = handlers[h].pending[1].url
    /\ subs'[nextId].last_price = handlers[h].pending[1].last_price

\* the handler h takes the PendingEntry of its user for a price message
ConsumesPending(h) ==
    /\ handlers'[h].user \in DOMAIN PENDING
    /\ handlers'[h].user \notin DOMAIN PENDING'
    /\ handlers'[h].pending = Some(PENDING[handlers'[h].user])
    /\ handlers'[h].price \in {Parsed[t].price[1] : t \in {x \in Texts : Parsed[x].price # None}}
    /\ handlers'[h].price > 0

\* C10 as stated: a price message of a user with a PendingEntry removes the
\* entry and always ends with exactly one Subscription inserted from it.
C10_PriceAlwaysInsertsSubscription ==
    [][\A h \in 1..MaxHandlers :
          /\ (handlers[h].pc = "idle" /\ handlers'[h].pc = "insert") => ConsumesPending(h)
          /\ (handlers[h].pc = "insert" /\ handlers'[h].pc = "idle")
               => (InsertedFor(h) /\ PENDING' = PENDING)]_vars

\* C10, amended: the price message removes the PendingEntry; when
\* db_add_subscription commits, exactly one Subscription is inserted with
\* target_price = p > 0, active = true and the fields of the consumed entry;
\* when it raises, no Subscription is inserted and the entry stays removed.
C10_PriceConsumesPending ==
    [][\A h \in 1..MaxHandlers :
          /\ (handlers[h].pc = "idle" /\ handlers'[h].pc = "insert")
               => (ConsumesPending(h) /\ subs' = subs)
          /\ (handlers[h].pc = "insert" /\ handlers'[h].pc = "idle")
               => (PENDING' = PENDING /\ (InsertedFor(h) \/ subs' = subs))]_vars

\* a subscription created from a price message, its user without PendingEntry
C10_Witness ==
    \E id \in DOMAIN subs :
        /\ subs[id].active
        /\ subs[id].target_price = 2
        /\ subs[id].user_id \notin DOMAIN PENDING
        /\ \A h \in 1..MaxHandlers : handlers[h].pc = "idle"

\* the on_message tasks of the model
Tasks == DOMAIN handlers

\* the step gives user u a PendingEntry, or another one
PendingWritten(u) ==
    /\ u \in DOMAIN PENDING'
    /\ u \in DOMAIN PENDING => PENDING'[u] # PENDING[u]

\* the task h of user u returns from fetch_wb_card with a card and stores the
\* PendingEntry made from it
StoresFetched(h, u) ==
    /\ handlers[h].pc = "fetch"
    /\ handlers[h].user = u
    /\ handlers'[h].pc = "idle"
    /\ \E r \in CardFetches[handlers[h].nm] :
          r.ok /\ PENDING'[u] = WBPending(handlers[h].nm, r.card)

\* the step stores an OZON PendingEntry for u, who had none, without any fetch
StoresOzon(u) ==
    /\ u \notin DOMAIN PENDING
    /\ PENDING'[u].marketplace = "ozon"
    /\ PENDING'[u].last_price = None
    /\ \E t \in Texts \cup ChatTexts :
          /\ Parsed[t].ozon_id # None
          /\ ~Truthy(Parsed[t].nm)
          /\ PENDING'[u].product_id = Parsed[t].ozon_id[1]
    /\ handlers' = handlers

\* C11: a user gets a PendingEntry only from a task of theirs that returns
\* from a successful marketplace fetch; a failed fetch and an unparsable
\* message store no PendingEntry; none of these steps creates a Subscription.
C11_PendingOnlyAfterFetch ==
    [][/\ \A u \in Users :
            PendingWritten(u) => (subs' = subs /\ \E h \in Tasks : StoresFetched(h, u))
       /\ \A h \in Tasks :
            (handlers[h].pc = "fetch" /\ handlers'[h].pc = "idle")
              => /\ subs' = subs
                 /\ PENDING' = PENDING \/ StoresFetched(h, handlers[h].user)]_vars

\* C11 for the code: as above, but an OZON reference gets its PendingEntry
\* straight from the parse, with last_price null and no fetch at all.
C11_PendingOnlyAfterParse ==
    [][/\ \A u \in Users :
            PendingWritten(u)
              => /\ subs' = subs
                 /\ StoresOzon(u) \/ \E h \in Tasks : StoresFetched(h, u)
       /\ \A h \in Tasks :
            (handlers[h].pc = "fetch" /\ handlers'[h].pc = "idle")
              => /\ subs' = subs
                 /\ PENDING' = PENDING \/ StoresFetched(h, handlers[h].user)]_vars

\* a user awaiting a price for a WB card whose fetch gave a price, no task
\* suspended, no subscription
C11_Witness ==
    /\ \E u \in DOMAIN PENDING :
          PENDING[u].marketplace = "wb" /\ PENDING[u].last_price # None
    /\ \A h \in Tasks : handlers[h].pc = "idle"
    /\ subs = << >>

\* the texts that are product references: extract_wb_nm or extract_ozon_id
\* finds an id in them
RefTexts ==
    {t \in Texts \cup ChatTexts : Truthy(Parsed[t].nm) \/ Parsed[t].ozon_id # None}

\* C12: a valid product reference sent by a user who has a PendingEntry
\* overwrites the entry and creates no Subscription: no such message is ever
\* taken as the target price of the entry it should replace.
C12_ReferenceNeverTakenAsPrice ==
    [][\A h \in Tasks :
          (handlers[h].pc = "idle" /\ handlers'[h].pc = "insert")
            => \A t \in RefTexts : Parsed[t].price # Some(handlers'[h].price)]_vars

\* the task h takes the PendingEntry of u for a text that is_price_message
\* accepts: a positive integer
TakesPrice(h, u) ==
    /\ handlers[h].pc = "idle"
    /\ handlers'[h].pc = "insert"
    /\ handlers'[h].user = u
    /\ handlers'[h].pending = Some(PENDING[u])
    /\ handlers'[h].price > 0
    /\ \E t \in Texts \cup ChatTexts : Parsed[t].price = Some(handlers'[h].price)

\* C13: a text that is no positive integer, sent by a user who has a
\* PendingEntry, changes nothing: the entry goes away or changes only when a
\* task takes it for a positive integer price (or a task that was suspended
\* in its fetch stores its card), and a row is inserted only by a task that
\* took a price.
C13_NonPriceLeavesPending ==
    [][/\ \A u \in DOMAIN PENDING :
            (u \notin DOMAIN PENDING' \/ PendingWritten(u))
              => \E h \in Tasks : TakesPrice(h, u) \/ StoresFetched(h, u)
       /\ subs' # subs /\ DOMAIN subs \subseteq DOMAIN subs'
            => \E h \in Tasks : handlers[h].pc = "insert" /\ handlers'[h].pc = "idle"]_vars

\* a user still awaiting a price for an OZON reference, nothing inserted and
\* no task suspended
C13_Witness ==
    /\ \E u \in DOMAIN PENDING : PENDING[u].marketplace = "ozon"
    /\ \A h \in Tasks : handlers[h].pc = "idle"
    /\ subs = << >>
    /\ nextId = 1

\* the table without the row id
Without(table, id) == [i \in DOMAIN table \ {id} |-> table[i]]

\* C14: /remove <id> from chat c deletes the row id exactly when that row's
\* chat_id is c; for a row of another chat nothing changes and the answer is
\* the one given for an id that does not exist; and a row leaves the table
\* only by a /remove from its own chat.
C14_RemoveScopedToChat ==
    /\ [](\A c \in Chats : \A id \in Ids \cup {nextId} :
            IF id \in DOMAIN subs /\ subs[id].chat_id = c
            THEN /\ db_remove_subscription(subs, c, id) = Without(subs, id)
                 /\ cmd_remove_answer(subs, c, id) = "removed"
            ELSE /\ db_remove_subscription(subs, c, id) = subs
                 /\ cmd_remove_answer(subs, c, id) = cmd_remove_answer(subs, c, nextId)
                 /\ cmd_remove_answer(subs, c, id) = "not found")
    /\ [][\A id \in DOMAIN subs \ DOMAIN subs' :
            subs' = db_remove_subscription(subs, subs[id].chat_id, id)]_vars

\* the only row ever inserted has been removed by its chat
C14_Witness == subs = << >> /\ nextId = 2

\* the OZON reference forms of the model: the command form and a link that
\* ends in -<digits>, both with the id 654321
OzonForms == { TxtOzonArticle, TxtOzonLink }

\* C15: a valid OZON reference is resolved as marketplace OZON with its id,
\* never as a WB product: no task starts a WB card fetch for the digits of an
\* OZON reference, and a PendingEntry for those digits is an OZON entry.
C15_OzonNeverResolvedAsWB ==
    /\ [](\A u \in DOMAIN PENDING : \A t \in OzonForms :
            PENDING[u].product_id = Parsed[t].ozon_id[1] => PENDING[u].marketplace = "ozon")
    /\ [][\A h \in Tasks :
            (handlers[h].pc = "idle" /\ handlers'[h].pc = "fetch")
              => \A t \in OzonForms : str(handlers'[h].nm) # Parsed[t].ozon_id[1]]_vars

\* the hosts of net that answer 200 with a body r.json() decodes
Serving(net) == {k \in 1..NumHosts : net[k].kind = "json"}

\* C16: fetch_wb_card requests the hosts in ascending host number from
\* basket-01, moves on after every answer that is not a decodable 200, returns
\* the card of the lowest-numbered serving host without a request to any
\* later host, and raises only after all 20 hosts failed, with the error of
\* host 20.
C16_LowestServingHostWins ==
    \A h \in Tasks :
        handlers[h].get # None =>
            LET g == handlers[h].get[1]
                n == Len(g.tried)
            IN /\ \A k \in 1..n : g.tried[k] = k /\ BASKETS[k] = k
               /\ g.out = None
                    => /\ n = g.i - 1
                       /\ \A k \in 1..n : k \notin Serving(g.net)
               /\ (g.out # None /\ g.out[1].ok)
                    => /\ g.out[1].host = Min(Serving(g.net))
                       /\ g.out[1].card = g.net[g.out[1].host].card
                       /\ n = g.out[1].host
               /\ (g.out # None /\ ~g.out[1].ok)
                    => /\ Serving(g.net) = {}
                       /\ n = NumHosts
                       /\ g.out[1].last_err =
                            [kind |-> g.net[NumHosts].kind, status |-> g.net[NumHosts].status,
                             host |-> NumHosts]
               /\ g.out # None => g.out[1] = fetch_wb_card(handlers[h].nm, g.net)

\* hosts 1 to 5 failed in two different ways, host 6 served the card that is
\* returned, and host 7, which serves another card, was not asked
C16_Witness ==
    \E h \in Tasks :
        /\ handlers[h].get # None
        /\ handlers[h].get[1].out # None
        /\ handlers[h].get[1].out[1].ok
        /\ handlers[h].get[1].out[1].host = 6
        /\ handlers[h].get[1].tried = << 1, 2, 3, 4, 5, 6 >>
        /\ handlers[h].get[1].net[1].kind # handlers[h].get[1].net[2].kind
        /\ handlers[h].get[1].net[7].kind = "json"
        /\ handlers[h].get[1].net[7].card # handlers[h].get[1].out[1].card

\* C17: interleaved handlers of one user lose no update: the outcome is that
\* of handling the messages in the order sent, so after two references the
\* PendingEntry is that of the later one.  A task whose reference was sent
\* before every reference handled during its fetch never replaces, when it
\* resumes, the PendingEntry one of those later references has stored.
C17_LaterReferenceWins ==
    [][\A h \in Tasks :
          (/\ handlers[h].pc = "fetch"
           /\ handlers'[h].pc = "idle"
           /\ handlers[h].alone
           /\ handlers[h].user \in DOMAIN PENDING
           /\ handlers[h].user \in DOMAIN PENDING')
            => PENDING'[handlers[h].user] = PENDING[handlers[h].user]]_vars

\* C18: a check_prices cycle leaves every OZON subscription unchanged: no task
\* is ever suspended on an OZON row (so none updates its last_price, notifies
\* for it or deactivates it), no step changes an OZON row other than its
\* removal, nothing is delivered for it, and every OZON subscription in the
\* table is active with the last_price it was created with (null).
C18_OzonRowsUntouched ==
    [][/\ \A c \in Slots : InProgress(c)' => Row(c)'.marketplace # "ozon"
       /\ \A id \in DOMAIN subs \cap DOMAIN subs' :
             subs[id].marketplace = "ozon" => subs'[id] = subs[id]
       /\ \A id \in DOMAIN subs' :
             subs'[id].marketplace = "ozon"
               => /\ subs'[id].active
                  /\ subs'[id].last_price = None
                  /\ NotificationsFor(id)' = 0]_vars

\* a task loaded the OZON subscription 1 and the WB subscription 2, went past
\* the first and has fetched a price for the second; the first is as created
C18_Witness ==
    \E c \in Slots :
        /\ cycles[c].pc = "update"
        /\ Len(cycles[c].rows) = 2
        /\ cycles[c].rows[1].marketplace = "ozon"
        /\ cycles[c].idx = 2
        /\ 1 \in DOMAIN subs
        /\ subs[1].marketplace = "ozon" /\ subs[1].active /\ subs[1].last_price = None

\* C19: a subscription with active = false has had a 'price reached'
\* notification delivered to its chat_id; a step that deactivates it is the
\* db_deactivate of a task that fetched a price <= its target_price and whose
\* send of the notification to that chat was delivered before.
C19_InactiveOnlyAfterDelivery ==
    [][/\ \A id \in DOMAIN subs' :
             ~subs'[id].active => sent'[<< id, subs'[id].chat_id >>] >= 1
       /\ \A id \in DOMAIN subs \cap DOMAIN subs' :
             (subs[id].active /\ ~subs'[id].active)
               => \E c \in Slots :
                     /\ cycles[c].pc = "deactivate"
                     /\ Row(c).id = id
                     /\ Row(c).chat_id = subs[id].chat_id
                     /\ cycles[c].price # None
                     /\ cycles[c].price[1] <= subs[id].target_price
                     /\ sent[<< id, subs[id].chat_id >>] >= 1]_vars

\* subscription 1 is inactive, one notification was delivered to its chat
\* and the tasks are over
C19_Witness ==
    /\ 1 \in DOMAIN subs
    /\ ~subs[1].active
    /\ sent[<< 1, subs[1].chat_id >>] = 1
    /\ \A c \in Slots : cycles[c].pc = "idle"

\* C20: a price message removes the user's PendingEntry only if the
\* Subscription was persisted: when the store insert fails while a valid
\* target price is handled, the PendingEntry is present afterwards.
C20_FailedInsertKeepsPending ==
    [][\A h \in Tasks :
          (/\ handlers[h].pc = "insert"
           /\ handlers'[h].pc = "idle"
           /\ subs' = subs)
            => handlers[h].user \in DOMAIN PENDING']_vars
====
